---- MODULE Spec2Model ----
(***************************************************************************)
(* Model of scripts/analyze_benchmark_results.py: the Criterion output     *)
(* parser, the time normalizer, the speedup comparator and the report      *)
(* generator (main).                                                       *)
(*                                                                         *)
(* Text is a sequence of characters, a character a one-element string:     *)
(* "a", " ", "\n"; the two non-ASCII characters the source mentions are    *)
(* written by their code points, "U+00B5" (micro sign) and "U+00C2" (Latin *)
(* capital A with circumflex); the grave accent is "U+0060".               *)
(*                                                                         *)
(* Numbers: a Python float is modelled as the IEEE 754 binary64 value it   *)
(* is, mantissa and binary exponent, and float(), *, / and the format      *)
(* :.2f round as binary64 does (to nearest, a tie to even).  The mantissa  *)
(* has up to 53 binary digits and is kept as a sequence of digits in base  *)
(* 2^15, as are the integers the roundings go through.                     *)
(***************************************************************************)
EXTENDS Integers, Sequences, FiniteSets

VARIABLES
    pc,               \* main: position of the script
    argc,             \* main: number of positional arguments, len(sys.argv) - 1
    main_file,        \* main: the lines of the file named by sys.argv[1]
    current_file,     \* main: the lines of the file named by sys.argv[2]
    opened,           \* main: how many files have been opened so far
    main_results,     \* main: parse_criterion_output(main_file)
    current_results,  \* main: parse_criterion_output(current_file)
    all_benchmarks,   \* main: sorted union of the keys
    categories,       \* main: category tag -> list of benchmark names
    cat_idx,          \* main: index of the category being printed
    row_idx,          \* main: index of the next row in that category
    stdout,           \* main: lines printed to standard output
    stderr,           \* main: lines printed to the error stream
    status,           \* main: exit status of the process, -1 while running
    improvements,     \* main: summary counter
    regressions,      \* main: summary counter
    similar,          \* main: summary counter
    time_str,         \* call of parse_time_to_ns: its argument
    time_out,         \* call of parse_time_to_ns: its outcome
    speedup_in,       \* call of calculate_speedup: its arguments
    speedup_out       \* call of calculate_speedup: its outcome

vars == <<pc, argc, main_file, current_file, opened, main_results,
          current_results, all_benchmarks, categories, cat_idx, row_idx,
          stdout, stderr, status, improvements, regressions, similar,
          time_str, time_out, speedup_in, speedup_out>>

mainVars == <<pc, argc, main_file, current_file, opened, main_results,
              current_results, all_benchmarks, categories, cat_idx, row_idx,
              stdout, stderr, status, improvements, regressions, similar>>

(***************************************************************************)
(* Bounds of the model.                                                    *)
(***************************************************************************)
\* Longest file, in lines.
MaxLines == 2
\* Longest number text handed to parse_time_to_ns in its own specification.
MaxNumLen == 3
\* Largest nanosecond value handed to calculate_speedup in its own specification.
MaxNs == 12

(***************************************************************************)
(* Characters.                                                             *)
(***************************************************************************)
\* The printable ASCII characters in code point order, 32 (space) to 126.
Ascii ==
    <<" ", "!", "\"", "#", "$", "%", "&", "'", "(", ")", "*", "+", ",", "-",
      ".", "/", "0", "1", "2", "3", "4", "5", "6", "7", "8", "9", ":", ";",
      "<", "=", ">", "?", "@", "A", "B", "C", "D", "E", "F", "G", "H", "I",
      "J", "K", "L", "M", "N", "O", "P", "Q", "R", "S", "T", "U", "V", "W",
      "X", "Y", "Z", "[", "\\", "]", "^", "_", "U+0060", "a", "b", "c", "d", "e",
      "f", "g", "h", "i", "j", "k", "l", "m", "n", "o", "p", "q", "r", "s",
      "t", "u", "v", "w", "x", "y", "z", "{", "|", "}", "~">>

\* ord(c), the order sorted() compares strings by.
CodePoint(c) ==
    IF c = "\t" THEN 9
    ELSE IF c = "\n" THEN 10
    ELSE IF c = "U+00B5" THEN 181
    ELSE IF c = "U+00C2" THEN 194
    ELSE 31 + (CHOOSE i \in 1..Len(Ascii) : Ascii[i] = c)

LowerCase == <<"a", "b", "c", "d", "e", "f", "g", "h", "i", "j", "k", "l", "m",
               "n", "o", "p", "q", "r", "s", "t", "u", "v", "w", "x", "y", "z">>
UpperCase == <<"A", "B", "C", "D", "E", "F", "G", "H", "I", "J", "K", "L", "M",
               "N", "O", "P", "Q", "R", "S", "T", "U", "V", "W", "X", "Y", "Z">>
DigitChars == <<"0", "1", "2", "3", "4", "5", "6", "7", "8", "9">>

Range(s) == {s[i] : i \in 1..Len(s)}

\* The regular expression classes \d, \s and \w (str patterns).
Digit == Range(DigitChars)
Space == {" ", "\t", "\n"}
Letter == Range(LowerCase) \cup Range(UpperCase) \cup {"U+00B5", "U+00C2"}
Word == Letter \cup Digit \cup {"_"}
\* [\d.]
NumChar == Digit \cup {"."}

(***************************************************************************)
(* Numbers.  A natural number of any size is the sequence of its digits in *)
(* base 2^15, the least significant first, without leading zeros (zero is  *)
(* the empty sequence): the products of two digits stay below 2^31.  The   *)
(* arithmetic is written as functions, whose arguments are values.         *)
(***************************************************************************)
Base == 32768
BaseBits == 15
Big == Seq(Nat)

\* a without its leading zero digits.
BigTrim[a \in Big] ==
    IF a = <<>> THEN <<>>
    ELSE IF a[Len(a)] = 0 THEN BigTrim[SubSeq(a, 1, Len(a) - 1)]
    ELSE a

BigOfInt[n \in Nat] ==
    IF n = 0 THEN <<>> ELSE <<n % Base>> \o BigOfInt[n \div Base]

\* The digit of weight Base^(i-1).
Limb(a, i) == IF i <= Len(a) THEN a[i] ELSE 0

BigCmpFrom[a \in Big, b \in Big, i \in Nat] ==
    IF i = 0 THEN 0
    ELSE IF a[i] < b[i] THEN -1
    ELSE IF a[i] > b[i] THEN 1
    ELSE BigCmpFrom[a, b, i - 1]

\* -1, 0 or 1 as a is below, equal to or above b.
BigCmp[a \in Big, b \in Big] ==
    IF Len(a) < Len(b) THEN -1
    ELSE IF Len(a) > Len(b) THEN 1
    ELSE BigCmpFrom[a, b, Len(a)]

BigAddFrom[a \in Big, b \in Big, i \in Nat, carry \in Nat] ==
    IF i > Len(a) /\ i > Len(b)
    THEN IF carry = 0 THEN <<>> ELSE <<carry>>
    ELSE <<(Limb(a, i) + Limb(b, i) + carry) % Base>>
         \o BigAddFrom[a, b, i + 1, (Limb(a, i) + Limb(b, i) + carry) \div Base]

BigAdd[a \in Big, b \in Big] == BigAddFrom[a, b, 1, 0]

BigSubFrom[a \in Big, b \in Big, i \in Nat, borrow \in Nat] ==
    IF i > Len(a) THEN <<>>
    ELSE IF a[i] - Limb(b, i) - borrow < 0
    THEN <<a[i] - Limb(b, i) - borrow + Base>> \o BigSubFrom[a, b, i + 1, 1]
    ELSE <<a[i] - Limb(b, i) - borrow>> \o BigSubFrom[a, b, i + 1, 0]

\* a - b, for a >= b.
BigSub[a \in Big, b \in Big] == BigTrim[BigSubFrom[a, b, 1, 0]]

BigMulSmallFrom[a \in Big, c \in Nat, i \in Nat, carry \in Nat] ==
    IF i > Len(a) THEN IF carry = 0 THEN <<>> ELSE <<carry>>
    ELSE <<(a[i] * c + carry) % Base>>
         \o BigMulSmallFrom[a, c, i + 1, (a[i] * c + carry) \div Base]

\* a * c, for 0 <= c < Base.
BigMulSmall[a \in Big, c \in Nat] ==
    IF c = 0 THEN <<>> ELSE BigMulSmallFrom[a, c, 1, 0]

\* a * Base^k.
BigShiftLimbs[a \in Big, k \in Nat] ==
    IF a = <<>> THEN <<>> ELSE [i \in 1..k |-> 0] \o a

BigMul[a \in Big, b \in Big] ==
    IF b = <<>> THEN <<>>
    ELSE BigAdd[BigMulSmall[a, b[1]], BigShiftLimbs[BigMul[a, Tail(b)], 1]]

\* The division of the digits a[1..i] with the remainder rem carried in
\* from the digits above, whose quotient is q.
BigDivSmallFrom[a \in Big, c \in Nat, i \in Nat, rem \in Nat, q \in Big] ==
    IF i = 0 THEN [q |-> BigTrim[q], r |-> rem]
    ELSE BigDivSmallFrom[a, c, i - 1, (rem * Base + a[i]) % c,
                         <<(rem * Base + a[i]) \div c>> \o q]

\* The quotient and the remainder of a by c, for 0 < c < Base.
BigDivSmall[a \in Big, c \in Nat] == BigDivSmallFrom[a, c, Len(a), 0, <<>>]

Pow2[k \in Nat] == IF k = 0 THEN 1 ELSE 2 * Pow2[k - 1]

BitLenSmall[n \in Nat] == IF n = 0 THEN 0 ELSE 1 + BitLenSmall[n \div 2]

\* The number of binary digits of a.
BigBitLen[a \in Big] ==
    IF a = <<>> THEN 0 ELSE BaseBits * (Len(a) - 1) + BitLenSmall[a[Len(a)]]

\* 2^k, a * 2^k, a \div 2^k and a % 2^k.
BigPow2[k \in Nat] == BigShiftLimbs[<<Pow2[k % BaseBits]>>, k \div BaseBits]
BigShl[a \in Big, k \in Nat] ==
    BigShiftLimbs[BigMulSmall[a, Pow2[k % BaseBits]], k \div BaseBits]
BigShr[a \in Big, k \in Nat] ==
    BigDivSmall[SubSeq(a, (k \div BaseBits) + 1, Len(a)), Pow2[k % BaseBits]].q
BigLow[a \in Big, k \in Nat] ==
    IF k \div BaseBits >= Len(a) THEN a
    ELSE BigTrim[Append(SubSeq(a, 1, k \div BaseBits),
                        a[(k \div BaseBits) + 1] % Pow2[k % BaseBits])]

BigOdd(a) == a # <<>> /\ a[1] % 2 = 1

BigPow10[k \in Nat] == IF k = 0 THEN <<1>> ELSE BigMulSmall[BigPow10[k - 1], 10]

\* The largest q <= guess with d * q <= x.
QuotientDigit[x \in Big, d \in Big, guess \in Nat] ==
    IF BigCmp[BigMulSmall[d, guess], x] > 0 THEN QuotientDigit[x, d, guess - 1]
    ELSE guess

\* The first guess of the quotient digit of x by d, from the two leading
\* digits of x and the leading digit of d: it is never too small.
DigitGuess[x \in Big, d \in Big] ==
    IF (Limb(x, Len(d) + 1) * Base + Limb(x, Len(d))) \div d[Len(d)] < Base
    THEN (Limb(x, Len(d) + 1) * Base + Limb(x, Len(d))) \div d[Len(d)]
    ELSE Base - 1

\* The states of the long division: the dividend n, the divisor d, the
\* number i of digits of n still to take, and the quotient q and the
\* remainder r of those taken.
DivStates == [n : Big, d : Big, i : Nat, q : Big, r : Big]

\* One step of the long division, once the quotient digit of the running
\* remainder x is known.
BigDivTake[s \in DivStates, x \in Big, digit \in Nat] ==
    [n |-> s.n, d |-> s.d, i |-> s.i - 1, q |-> <<digit>> \o s.q,
     r |-> BigSub[x, BigMulSmall[s.d, digit]]]

BigDivStep[s \in DivStates, x \in Big] ==
    BigDivTake[s, x, QuotientDigit[x, s.d, DigitGuess[x, s.d]]]

\* Long division of n by d, whose leading digit is at least Base / 2, from
\* the leading digit of n down.
BigDivFrom[s \in DivStates] ==
    IF s.i = 0 THEN [q |-> BigTrim[s.q], exact |-> s.r = <<>>]
    ELSE BigDivFrom[BigDivStep[s, BigTrim[<<s.n[s.i]>> \o s.r]]]

BigDivStart[n \in Big, d \in Big] ==
    BigDivFrom[[n |-> n, d |-> d, i |-> Len(n), q |-> <<>>, r |-> <<>>]]

\* The quotient of n by d (d > 0), and whether the division is exact: both
\* are first scaled to bring the leading digit of d to Base / 2 at least.
BigDivScaled[n \in Big, d \in Big, s \in Nat] ==
    BigDivStart[BigShl[n, s], BigShl[d, s]]

BigDiv[n \in Big, d \in Big] ==
    BigDivScaled[n, d, BaseBits - BitLenSmall[d[Len(d)]]]

\* Whether a quotient q whose dropped part compares as c with one half (-1
\* below, 0 equal, 1 above; with sticky, something more was dropped before)
\* is rounded up: to the nearest, a tie to the even one.
RoundsUp(q, c, sticky) == c > 0 \/ (c = 0 /\ (sticky \/ BigOdd(q)))

BigRounded[q \in Big, c \in Int, sticky \in BOOLEAN] ==
    IF RoundsUp(q, c, sticky) THEN BigAdd[q, <<1>>] ELSE q

\* n / 2^k rounded to the nearest integer.
BigRoundShr[n \in Big, k \in Nat, sticky \in BOOLEAN] ==
    IF k = 0 THEN n
    ELSE BigRounded[BigShr[n, k], BigCmp[BigLow[n, k], BigPow2[k - 1]], sticky]

(***************************************************************************)
(* A Python float is an IEEE 754 binary64 value.  The script's are never   *)
(* negative.  A finite one is [cls |-> "finite", m |-> m, e |-> e], the    *)
(* value m * 2^e with m odd and below 2^53 and e >= -1074 (zero: m and e   *)
(* both zero), so that equal values are equal records; the others are      *)
(* [cls |-> "inf"] and [cls |-> "nan"].  Every operation rounds its exact  *)
(* result to the nearest value, a tie to the one with an even mantissa.    *)
(***************************************************************************)
MantissaBits == 53
\* The exponent of the least positive value, 2^-1074.
MinExponent == -1074
\* Values of 2^1024 and more overflow.
OverflowExponent == 1024

FloatZero == [cls |-> "finite", m |-> <<>>, e |-> 0]
FloatInf == [cls |-> "inf"]
FloatNaN == [cls |-> "nan"]
Floats == [cls : {"finite"}, m : Big, e : Int] \cup {FloatInf, FloatNaN}

Max(a, b) == IF a > b THEN a ELSE b

\* How many times 2 divides the digit c (c > 0).
TrailingZeros[c \in Nat] == IF c % 2 = 1 THEN 0 ELSE 1 + TrailingZeros[c \div 2]

\* How many of the digits a[i..] are zero before the first that is not.
ZeroLimbs[a \in Big, i \in Nat] == IF a[i] # 0 THEN 0 ELSE 1 + ZeroLimbs[a, i + 1]

\* How many times 2 divides q (q > 0).
BigTrailingZeros[q \in Big] ==
    BaseBits * ZeroLimbs[q, 1] + TrailingZeros[q[ZeroLimbs[q, 1] + 1]]

\* q * 2^e with the tz trailing zeros of q moved to the exponent.
FloatStrip[q \in Big, e \in Int, tz \in Nat] ==
    [cls |-> "finite", m |-> BigShr[q, tz], e |-> e + tz]

\* The value q * 2^e, which takes no rounding: an overflow is infinite.
FloatMake[q \in Big, e \in Int] ==
    IF q = <<>> THEN FloatZero
    ELSE IF BigBitLen[q] + e > OverflowExponent THEN FloatInf
    ELSE FloatStrip[q, e, BigTrailingZeros[q]]

FloatRoundAt[n \in Big, e \in Int, sticky \in BOOLEAN, k \in Nat] ==
    FloatMake[BigRoundShr[n, k, sticky], e + k]

\* The value nearest to (n + f) * 2^e, where 0 <= f < 1 and f > 0 just when
\* sticky: the lowest binary digits of n are dropped, to leave 53 and an
\* exponent of -1074 at least.  (With sticky, n has more than 53 digits.)
FloatRound[n \in Big, e \in Int, sticky \in BOOLEAN] ==
    FloatRoundAt[n, e, sticky,
                 Max(Max(BigBitLen[n] - MantissaBits, MinExponent - e), 0)]

\* What a division gives: the quotient, and whether it is exact.
Quotients == [q : Big, exact : BOOLEAN]

\* The rounding of a quotient.
FloatRoundDiv[dv \in Quotients, e \in Int] ==
    FloatRound[dv.q, e, ~dv.exact]

\* (num / den) * 2^x with the quotient scaled by 2^t.
FloatRatioAt[num \in Big, den \in Big, x \in Int, t \in Int] ==
    FloatRoundDiv[BigDiv[BigShl[num, Max(t, 0)], BigShl[den, Max(0 - t, 0)]],
                  x - t]

\* The value nearest to (num / den) * 2^x, for num >= 0 and den > 0: the
\* quotient is taken to 56 binary digits at least, then rounded.
FloatRatio[num \in Big, den \in Big, x \in Int] ==
    IF num = <<>> THEN FloatZero
    ELSE FloatRatioAt[num, den, x,
                      (MantissaBits + 3) - (BigBitLen[num] - BigBitLen[den])]

\* float(k) for an integer k >= 0.
FloatOfInt[k \in Nat] == FloatRound[BigOfInt[k], 0, FALSE]

\* x * y, for y finite and not zero.
FloatMul[x \in Floats, y \in Floats] ==
    IF x.cls # "finite" THEN x
    ELSE FloatRound[BigMul[x.m, y.m], x.e + y.e, FALSE]

\* x / y, for y not zero.
FloatDiv[x \in Floats, y \in Floats] ==
    IF x.cls = "nan" \/ y.cls = "nan" THEN FloatNaN
    ELSE IF x.cls = "inf" THEN IF y.cls = "inf" THEN FloatNaN ELSE FloatInf
    ELSE IF y.cls = "inf" THEN FloatZero
    ELSE FloatRatio[x.m, y.m, x.e - y.e]

\* x < y
FloatLess[x \in Floats, y \in Floats] ==
    IF x.cls = "nan" \/ y.cls = "nan" \/ x.cls = "inf" THEN FALSE
    ELSE IF y.cls = "inf" THEN TRUE
    ELSE IF y.m = <<>> THEN FALSE
    ELSE IF x.m = <<>> THEN TRUE
    ELSE IF BigBitLen[x.m] + x.e # BigBitLen[y.m] + y.e
    THEN BigBitLen[x.m] + x.e < BigBitLen[y.m] + y.e
    ELSE IF x.e < y.e THEN BigCmp[x.m, BigShl[y.m, y.e - x.e]] < 0
    ELSE BigCmp[BigShl[x.m, x.e - y.e], y.m] < 0

\* The four decimal digits of n < 10000.
Digits4[n \in Nat] ==
    <<DigitChars[(n \div 1000) + 1], DigitChars[((n \div 100) % 10) + 1],
      DigitChars[((n \div 10) % 10) + 1], DigitChars[(n % 10) + 1]>>

\* The decimal digits of a, four at a time, before the digits ds.
BigDigitsBefore[a \in Big, ds \in Seq(STRING)] ==
    IF a = <<>> THEN ds
    ELSE BigDigitsBefore[BigDivSmall[a, 10000].q,
                         Digits4[BigDivSmall[a, 10000].r] \o ds]

\* ds without its leading zeros.
StripZeros[ds \in Seq(STRING)] ==
    IF ds # <<>> /\ ds[1] = "0" THEN StripZeros[Tail(ds)] ELSE ds

\* The decimal digits of a; none for zero.
BigDigits[a \in Big] == StripZeros[BigDigitsBefore[a, <<>>]]

\* The integer nearest to 100 * x, a tie to the even one (x finite).
Hundredths[x \in Floats] ==
    IF x.e >= 0 THEN BigShl[BigMulSmall[x.m, 100], x.e]
    ELSE BigRoundShr[BigMulSmall[x.m, 100], 0 - x.e, FALSE]

\* The digits ds, three at least, with a point before the last two.
Pointed[ds \in Seq(STRING)] ==
    IF Len(ds) < 3 THEN Pointed[<<"0">> \o ds]
    ELSE SubSeq(ds, 1, Len(ds) - 2) \o <<".">> \o SubSeq(ds, Len(ds) - 1, Len(ds))

\* f"{x:.2f}": the text printed.
Fmt2[x \in Floats] ==
    IF x.cls = "inf" THEN <<"i", "n", "f">>
    ELSE IF x.cls = "nan" THEN <<"n", "a", "n">>
    ELSE Pointed[BigDigits[Hundredths[x]]]

(***************************************************************************)
(* parse_time_to_ns.                                                       *)
(***************************************************************************)
RECURSIVE PrefixLen(_, _, _)
\* The length of the longest run of characters of class C in s from
\* position i (1-based) on.
PrefixLen(s, i, C) ==
    IF i > Len(s) \/ s[i] \notin C THEN 0 ELSE 1 + PrefixLen(s, i + 1, C)

RECURSIVE NonSpaceLen(_, _)
NonSpaceLen(s, i) ==
    IF i > Len(s) \/ s[i] \in Space THEN 0 ELSE 1 + NonSpaceLen(s, i + 1)

\* re.match(r'([\d.]+)\s*(\S+)', time_str): the match, anchored at the start.
\* ([\d.]+) and \s* are greedy; when nothing is left for (\S+) the first
\* group gives back its last character, which (\S+) then takes.
TimeMatch(s) ==
    LET r == PrefixLen(s, 1, NumChar)
        w == PrefixLen(s, r + 1, Space)
        u == NonSpaceLen(s, r + w + 1)
    IN  IF r = 0 THEN [matched |-> FALSE]
        ELSE IF u > 0
        THEN [matched |-> TRUE, g1 |-> SubSeq(s, 1, r),
              g2 |-> SubSeq(s, r + w + 1, r + w + u)]
        ELSE IF r >= 2
        THEN [matched |-> TRUE, g1 |-> SubSeq(s, 1, r - 1),
              g2 |-> SubSeq(s, r, r)]
        ELSE [matched |-> FALSE]

DigitVal(c) == (CHOOSE i \in 1..10 : DigitChars[i] = c) - 1

Texts == Seq(STRING)

\* The integer the digits of t from position i on spell after those that
\* spell n, the points dropped.
DigitsValueFrom[t \in Texts, i \in Nat, n \in Big] ==
    IF i > Len(t) THEN n
    ELSE IF t[i] = "." THEN DigitsValueFrom[t, i + 1, n]
    ELSE DigitsValueFrom[t, i + 1,
                         BigAdd[BigMulSmall[n, 10], BigOfInt[DigitVal(t[i])]]]

\* The integer a text of digits and points spells with its points dropped.
DigitsValue[t \in Texts] == DigitsValueFrom[t, 1, <<>>]

CountOf(t, c) == Cardinality({i \in 1..Len(t) : t[i] = c})

\* float(text) for a text of digits and points: a ValueError unless it
\* holds at most one point and at least one digit; otherwise the value
\* nearest to the decimal number spelled.
FloatOk(t) == CountOf(t, ".") <= 1 /\ Len(t) - CountOf(t, ".") >= 1

\* How many digits of t follow its point.
Decimals(t) ==
    IF CountOf(t, ".") = 0 THEN 0
    ELSE Len(t) - (CHOOSE i \in 1..Len(t) : t[i] = ".")

FloatOf[t \in Texts] == FloatRatio[DigitsValue[t], BigPow10[Decimals(t)], 0]

\* The literal 1.0.
FloatOne == [cls |-> "finite", m |-> <<1>>, e |-> 0]

\* The conversions dictionary: the unit and the integer its float is.
conversions ==
    {[unit |-> <<"n", "s">>,                factor |-> 1],
     [unit |-> <<"U+00C2", "U+00B5", "s">>, factor |-> 1000],
     [unit |-> <<"u", "s">>,                factor |-> 1000],
     [unit |-> <<"m", "s">>,                factor |-> 1000000],
     [unit |-> <<"s">>,                     factor |-> 1000000000]}

\* conversions.get(unit, 1.0)
ConversionOf[unit \in Texts] ==
    FloatOfInt[IF \E c \in conversions : c.unit = unit
               THEN (CHOOSE c \in conversions : c.unit = unit).factor
               ELSE 1]

\* What parse_time_to_ns gives: the value returned, or the ValueError of
\* float() raised.
ParseResults == [raised : BOOLEAN, value : Floats]

\* The matches of the pattern: the two groups.
TimeMatches == [matched : {TRUE}, g1 : Texts, g2 : Texts]

\* parse_time_to_ns from line 47 on, for the match mt.
ParseMatch[mt \in TimeMatches] ==
    IF ~FloatOk(mt.g1) THEN [raised |-> TRUE, value |-> FloatZero]
    ELSE [raised |-> FALSE,
          value |-> FloatMul[FloatOf[mt.g1], ConversionOf[mt.g2]]]

\* parse_time_to_ns(time_str): the value returned, or the exception raised.
parse_time_to_ns(s) ==
    IF ~TimeMatch(s).matched THEN [raised |-> FALSE, value |-> FloatZero]
    ELSE ParseMatch[TimeMatch(s)]

(***************************************************************************)
(* calculate_speedup.                                                      *)
(***************************************************************************)
\* Lines 68-76: the pair returned for a ratio; a label is its text and,
\* before it, the factor as :.2f prints it.  For a quotient that underflowed
\* to 0.0, 1.0 / ratio raises ZeroDivisionError.
LabelOf[ratio \in Floats] ==
    IF FloatLess[FloatOne, ratio]
    THEN [raised |-> FALSE, ratio |-> ratio,
          label |-> [text |-> "faster", factor |-> Fmt2[ratio]]]
    ELSE IF FloatLess[ratio, FloatOne]
    THEN IF ratio = FloatZero
         THEN [raised |-> TRUE, error |-> "ZeroDivisionError"]
         ELSE [raised |-> FALSE, ratio |-> ratio,
               label |-> [text |-> "slower (regression)",
                          factor |-> Fmt2[FloatDiv[FloatOne, ratio]]]]
    ELSE [raised |-> FALSE, ratio |-> FloatOne, label |-> [text |-> "Same"]]

\* calculate_speedup(main_ns, current_ns): the pair (ratio, label), or the
\* exception raised.
calculate_speedup(main_ns, current_ns) ==
    IF main_ns = FloatZero \/ current_ns = FloatZero
    THEN [raised |-> FALSE, ratio |-> FloatZero, label |-> [text |-> "N/A"]]
    ELSE LabelOf[FloatDiv[main_ns, current_ns]]

(***************************************************************************)
(* The two pure functions, each called on its own: the specification       *)
(* draws the arguments from a bounded set and the action applies the       *)
(* function.                                                               *)
(***************************************************************************)
RECURSIVE SeqsUpTo(_, _)
\* Every sequence over S of length at most n.
SeqsUpTo(S, n) ==
    IF n = 0 THEN {<<>>}
    ELSE LET shorter == SeqsUpTo(S, n - 1)
         IN  shorter \cup {Append(t, c) : t \in shorter, c \in S}

\* The characters number texts are drawn from.
NumAlphabet == {"0", "1", "2", "4", "5", "."}
NumTexts == SeqsUpTo(NumAlphabet, MaxNumLen)
GapTexts == {<<>>, <<" ">>}
UnitTexts ==
    {<<>>, <<"n", "s">>, <<"u", "s">>, <<"U+00B5", "s">>,
     <<"U+00C2", "U+00B5", "s">>, <<"m", "s">>, <<"s">>, <<"f", "o", "o">>,
     <<"N", "/", "A">>}
\* The arguments parse_time_to_ns is called with: a number text, a gap, a unit.
TimeStrings == {n \o g \o u : n \in NumTexts, g \in GapTexts, u \in UnitTexts}

\* The least float above 0.0: 2^-1074, which prints as 5e-324.
FloatLeast == [cls |-> "finite", m |-> <<1>>, e |-> MinExponent]

\* The arguments calculate_speedup is called with: the whole numbers up to
\* MaxNs and the least float above 0.0.
NsValues == {FloatOfInt[k] : k \in 0..MaxNs} \cup {FloatLeast}

MainIdle ==
    /\ pc = "idle" /\ argc = 0 /\ opened = 0
    /\ main_file = <<>> /\ current_file = <<>>
    /\ main_results = <<>> /\ current_results = <<>>
    /\ all_benchmarks = <<>> /\ categories = <<>>
    /\ cat_idx = 0 /\ row_idx = 0
    /\ stdout = <<>> /\ stderr = <<>> /\ status = -1
    /\ improvements = 0 /\ regressions = 0 /\ similar = 0

InitNorm ==
    /\ MainIdle
    /\ time_str \in TimeStrings
    /\ time_out = [state |-> "pending"]
    /\ speedup_in = <<>>
    /\ speedup_out = [state |-> "idle"]

\* The call parse_time_to_ns(time_str).
Normalize ==
    /\ time_out.state = "pending"
    /\ \E r \in {parse_time_to_ns(time_str)} :
          time_out' = IF r.raised
                      THEN [state |-> "raised", error |-> "ValueError"]
                      ELSE [state |-> "returned", value |-> r.value]
    /\ UNCHANGED <<mainVars, time_str, speedup_in, speedup_out>>

NextNorm == Normalize
SpecNorm == InitNorm /\ [][NextNorm]_vars

InitSpeedup ==
    /\ MainIdle
    /\ time_str = <<>>
    /\ time_out = [state |-> "idle"]
    /\ speedup_in \in [main_ns : NsValues, current_ns : NsValues]
    /\ speedup_out = [state |-> "pending"]

\* The call calculate_speedup(main_ns, current_ns).
Compare ==
    /\ speedup_out.state = "pending"
    /\ \E r \in {calculate_speedup(speedup_in.main_ns, speedup_in.current_ns)} :
          speedup_out' = IF r.raised
                         THEN [state |-> "raised", error |-> r.error]
                         ELSE [state |-> "returned", ratio |-> r.ratio,
                               label |-> r.label]
    /\ UNCHANGED <<mainVars, time_str, time_out, speedup_in>>

NextSpeedup == Compare
SpecSpeedup == InitSpeedup /\ [][NextSpeedup]_vars

(***************************************************************************)
(* parse_criterion_output.                                                 *)
(***************************************************************************)
RECURSIVE IndexFrom(_, _, _)
\* The first position from i on where s holds c, 0 when there is none.
IndexFrom(s, i, c) ==
    IF i > Len(s) THEN 0 ELSE IF s[i] = c THEN i ELSE IndexFrom(s, i + 1, c)

\* s[i..e-1], a run without white space, matches \S+/\S+/\d+.
NameIsPath(s, i, e) ==
    \E p \in (i + 1)..(e - 1) : \E q \in (p + 2)..(e - 2) :
        /\ s[p] = "/" /\ s[q] = "/"
        /\ \A k \in (q + 1)..(e - 1) : s[k] \in Digit

\* s[i..e-1] matches [\w_]+.
NameIsWord(s, i, e) == i < e /\ \A k \in i..(e - 1) : s[k] \in Word

TimeWord == <<"t", "i", "m", "e", ":">>

\* The pattern (\S+/\S+/\d+|[\w_]+)\s+time:\s+\[([^\]]+)\] matched at
\* position i.  The name is followed by white space and holds none, so it
\* ends where the run without white space that starts at i ends; after it
\* every part of the pattern has one way to match.
MatchAt(s, i) ==
    LET e  == i + NonSpaceLen(s, i)
        w  == e + PrefixLen(s, e, Space)
        t  == w + Len(TimeWord)
        b  == t + PrefixLen(s, t, Space)
        r  == IndexFrom(s, b + 1, "]")
    IN  IF /\ (NameIsPath(s, i, e) \/ NameIsWord(s, i, e))
           /\ w > e
           /\ t - 1 <= Len(s) /\ SubSeq(s, w, t - 1) = TimeWord
           /\ b > t
           /\ b <= Len(s) /\ s[b] = "["
           /\ r > b + 1
        THEN [matched |-> TRUE, g1 |-> SubSeq(s, i, e - 1),
              g2 |-> SubSeq(s, b + 1, r - 1), end |-> r + 1]
        ELSE [matched |-> FALSE]

RECURSIVE FindIter(_, _)
\* re.finditer(pattern, content): the matches from position pos on, leftmost
\* first, none overlapping.
FindIter(s, pos) ==
    IF pos > Len(s) THEN <<>>
    ELSE LET m == MatchAt(s, pos)
         IN  IF m.matched THEN <<m>> \o FindIter(s, m.end)
             ELSE FindIter(s, pos + 1)

RECURSIVE Split(_, _)
\* str.split(): the runs without white space of s from position i on.
Split(s, i) ==
    IF i > Len(s) THEN <<>>
    ELSE IF s[i] \in Space THEN Split(s, i + 1)
    ELSE LET n == NonSpaceLen(s, i)
         IN  <<SubSeq(s, i, i + n - 1)>> \o Split(s, i + n)

\* d[k] = v
Put(d, k, v) == [x \in (DOMAIN d) \cup {k} |-> IF x = k THEN v ELSE d[x]]

RECURSIVE Collect(_, _, _)
\* The loop over the matches: benchmarks after the matches ms[i..].
Collect(ms, i, benchmarks) ==
    IF i > Len(ms) THEN benchmarks
    ELSE LET times == Split(ms[i].g2, 1)
         IN  IF Len(times) >= 2
             THEN Collect(ms, i + 1,
                          Put(benchmarks, ms[i].g1,
                              [time |-> times[2], full_time |-> ms[i].g2]))
             ELSE Collect(ms, i + 1, benchmarks)

\* parse_criterion_output, of the text read from the file.
parse_criterion_output(content) == Collect(FindIter(content, 1), 1, <<>>)

(***************************************************************************)
(* The files.  A file is a sequence of lines, a line a benchmark name and  *)
(* the values between the brackets; what the parser reads is the text.     *)
(***************************************************************************)
RECURSIVE Join(_, _)
\* sep.join(parts)
Join(parts, sep) ==
    IF parts = <<>> THEN <<>>
    ELSE IF Len(parts) = 1 THEN parts[1]
    ELSE parts[1] \o sep \o Join(Tail(parts), sep)

\* The text of one line: "<name> time: [<values>]" and the line break.
LineText(line) ==
    line.name \o <<" ">> \o TimeWord \o <<" ", "[">>
        \o Join(line.vals, <<" ">>) \o <<"]", "\n">>

RECURSIVE FileText(_)
FileText(file) ==
    IF file = <<>> THEN <<>> ELSE LineText(Head(file)) \o FileText(Tail(file))

NameFooBar == <<"f", "o", "o", "/", "b", "a", "r", "/", "1", "0">>
NameEvalScal == <<"e", "v", "a", "l", "u", "a", "t", "i", "o", "n", "_", "s", "c", "a", "l", "a", "b", "i", "l", "i", "t", "y">>
NameCowClone == <<"c", "o", "w", "_", "c", "l", "o", "n", "e", "/", "a", "/", "1">>

\* The lines files are made of: the two lines of the specification's
\* example ("<number> <unit>" values); values written without the blank; a
\* line whose middle token is the text N/A; one whose middle token is no
\* number.
LineSet ==
    {[name |-> NameFooBar,
      vals |-> <<<<"1", "0", " ", "n", "s">>, <<"1", "2", " ", "n", "s">>,
                 <<"1", "4", " ", "n", "s">>>>],
     [name |-> NameFooBar,
      vals |-> <<<<"5", " ", "n", "s">>, <<"6", " ", "n", "s">>,
                 <<"7", " ", "n", "s">>>>],
     [name |-> NameEvalScal,
      vals |-> <<<<"1", "0", "n", "s">>, <<"1", "2", "n", "s">>,
                 <<"1", "4", "n", "s">>>>],
     [name |-> NameEvalScal,
      vals |-> <<<<"5", "n", "s">>, <<"6", "n", "s">>, <<"7", "n", "s">>>>],
     [name |-> NameCowClone,
      vals |-> <<<<"a">>, <<"N", "/", "A">>, <<"b">>>>],
     [name |-> NameCowClone,
      vals |-> <<<<"1">>, <<".", ".", "n", "s">>, <<"3">>>>]}

\* The files read: every sequence of at most MaxLines of these lines.
Files == SeqsUpTo(LineSet, MaxLines)

(***************************************************************************)
(* main: the report.                                                       *)
(***************************************************************************)
\* The keys of the categories dictionary, in the order it declares them.
CategoryTags ==
    <<<<"p", "r", "e", "f", "i", "x", "_", "f", "a", "s", "t", "_", "p", "a", "t", "h">>,
      <<"b", "u", "l", "k", "_", "i", "n", "s", "e", "r", "t", "i", "o", "n">>,
      <<"c", "o", "w", "_", "c", "l", "o", "n", "e">>,
      <<"p", "a", "t", "t", "e", "r", "n", "_", "m", "a", "t", "c", "h", "i", "n", "g">>,
      <<"r", "u", "l", "e", "_", "m", "a", "t", "c", "h", "i", "n", "g">>,
      <<"t", "y", "p", "e", "_", "l", "o", "o", "k", "u", "p">>,
      <<"e", "v", "a", "l", "u", "a", "t", "i", "o", "n">>,
      <<"s", "c", "a", "l", "a", "b", "i", "l", "i", "t", "y">>,
      <<"o", "t", "h", "e", "r">>>>

NumCategories == Len(CategoryTags)
\* The index of the key 'other'.
OtherIdx == NumCategories

\* category in bench
IsSubstring(t, s) ==
    \E i \in 0..(Len(s) - Len(t)) : SubSeq(s, i + 1, i + Len(t)) = t

\* The inner loop with its break: the first category whose key is in bench.
FirstMatch(bench) ==
    LET hits == {i \in 1..NumCategories : IsSubstring(CategoryTags[i], bench)}
    IN  CHOOSE i \in hits : \A j \in hits : i <= j

\* The bucket the loop appends bench to.
BucketOf(bench) ==
    IF \E i \in 1..NumCategories : IsSubstring(CategoryTags[i], bench)
    THEN FirstMatch(bench)
    ELSE OtherIdx

\* The loop without its break: bench is appended to every category whose
\* key is in it.
CategorizeNoBreak(benches) ==
    [i \in 1..NumCategories |->
        SelectSeq(benches,
                  LAMBDA b : \/ IsSubstring(CategoryTags[i], b)
                             \/ (i = OtherIdx /\ BucketOf(b) = OtherIdx))]

\* The categories after the loop over all_benchmarks: one list per key.
Categorize(benches) ==
    [i \in 1..NumCategories |-> SelectSeq(benches, LAMBDA b : BucketOf(b) = i)]

RECURSIVE StrLess(_, _)
\* a < b, as Python compares two strings.
StrLess(a, b) ==
    IF b = <<>> THEN FALSE
    ELSE IF a = <<>> THEN TRUE
    ELSE IF a[1] = b[1] THEN StrLess(Tail(a), Tail(b))
    ELSE CodePoint(a[1]) < CodePoint(b[1])

RECURSIVE Sorted(_)
\* sorted(S)
Sorted(S) ==
    IF S = {} THEN <<>>
    ELSE LET least == CHOOSE x \in S : \A y \in S \ {x} : StrLess(x, y)
         IN  <<least>> \o Sorted(S \ {least})

Upper(c) ==
    IF \E i \in 1..Len(LowerCase) : LowerCase[i] = c
    THEN UpperCase[CHOOSE i \in 1..Len(LowerCase) : LowerCase[i] = c]
    ELSE c
Lower(c) ==
    IF \E i \in 1..Len(UpperCase) : UpperCase[i] = c
    THEN LowerCase[CHOOSE i \in 1..Len(UpperCase) : UpperCase[i] = c]
    ELSE c

\* category.replace('_', ' ').title()
Heading(category) ==
    LET spaced == [i \in 1..Len(category) |->
                      IF category[i] = "_" THEN " " ELSE category[i]]
    IN  [i \in 1..Len(spaced) |->
            IF i = 1 \/ spaced[i - 1] \notin Letter
            THEN Upper(spaced[i]) ELSE Lower(spaced[i])]

NA == <<"N", "/", "A">>

\* results.get(bench, {}).get('time', 'N/A')
TimeOf(results, bench) ==
    IF bench \in DOMAIN results THEN results[bench].time ELSE NA

\* The literals 1.1 and 0.9.
ImprovedAbove == FloatOf[<<"1", ".", "1">>]
RegressedBelow == FloatOf[<<"0", ".", "9">>]

\* The marker put before the label of a row (lines 142-147).
MarkerOf(ratio) ==
    IF FloatLess[ImprovedAbove, ratio] THEN "improvement"
    ELSE IF FloatLess[ratio, RegressedBelow] THEN "regression"
    ELSE "neutral"

\* The exceptions the two loops can end with.
Errors == {"ValueError", "ZeroDivisionError"}

\* Lines 137-139 and 167-169: the pair calculate_speedup returns for the
\* two values parsed, or the exception one of the three calls raises.
Speedup[main_ns \in ParseResults, current_ns \in ParseResults] ==
    IF main_ns.raised \/ current_ns.raised
    THEN [raised |-> TRUE, error |-> "ValueError"]
    ELSE calculate_speedup(main_ns.value, current_ns.value)

\* The speedup cell of a row (lines 142-147) for the pair sp: its marker
\* and its label.
CellOf(sp) == [marker |-> MarkerOf(sp.ratio), label |-> sp.label]

\* The row of bench with its two times and its speedup cell (line 151).
Row(bench, main_time, current_time, cell) ==
    [kind |-> "row", bench |-> bench, main |-> main_time,
     current |-> current_time, marker |-> cell.marker, label |-> cell.label]

\* The body of the loop over the rows of a table (lines 132-151): the row
\* printed, or the exception parse_time_to_ns or calculate_speedup raises.
RowOf(bench, mres, cres) ==
    LET main_time    == TimeOf(mres, bench)
        current_time == TimeOf(cres, bench)
    IN  IF main_time # NA /\ current_time # NA
        THEN LET sp == Speedup[parse_time_to_ns(main_time),
                               parse_time_to_ns(current_time)]
             IN  IF sp.raised THEN sp
                 ELSE [raised |-> FALSE,
                       row |-> Row(bench, main_time, current_time, CellOf(sp))]
        ELSE [raised |-> FALSE,
              row |-> Row(bench, main_time, current_time,
                          [marker |-> "none", label |-> [text |-> "N/A"]])]

\* The summary loop with its two comparisons exchanged.
CounterOfExchanged(ratio) ==
    IF FloatLess[ratio, RegressedBelow] THEN "improvements"
    ELSE IF FloatLess[ImprovedAbove, ratio] THEN "regressions"
    ELSE "similar"

\* The counter the summary loop increments for a ratio (lines 171-176).
CounterOf(ratio) ==
    IF FloatLess[ImprovedAbove, ratio] THEN "improvements"
    ELSE IF FloatLess[ratio, RegressedBelow] THEN "regressions"
    ELSE "similar"

\* The body of the summary loop (lines 163-176): the counter incremented
\* for bench, "none" when either time is 'N/A', or the exception raised.
CountedAs(bench, mres, cres) ==
    LET main_time    == TimeOf(mres, bench)
        current_time == TimeOf(cres, bench)
    IN  IF main_time # NA /\ current_time # NA
        THEN LET sp == Speedup[parse_time_to_ns(main_time),
                               parse_time_to_ns(current_time)]
             IN  IF sp.raised THEN sp.error ELSE CounterOf(sp.ratio)
        ELSE "none"

\* What the summary loop does at each benchmark, in order.
Counted(benches, mres, cres) ==
    [i \in 1..Len(benches) |-> CountedAs(benches[i], mres, cres)]

\* The benchmarks at which the summary loop raises.
Raising(counted) == {i \in DOMAIN counted : counted[i] \in Errors}

\* How many benchmarks the summary loop counts under counter c.
Tally(counted, c) == Cardinality({i \in DOMAIN counted : counted[i] = c})

\* The non-empty categories not yet printed, from index i on.
Pending(cats, i) == {j \in i..NumCategories : cats[j] # <<>>}

Init ==
    /\ pc = "start"
    /\ argc \in 0..3
    /\ main_file = <<>> /\ current_file = <<>> /\ opened = 0
    /\ main_results = <<>> /\ current_results = <<>>
    /\ all_benchmarks = <<>> /\ categories = <<>>
    /\ cat_idx = 0 /\ row_idx = 0
    /\ stdout = <<>> /\ stderr = <<>> /\ status = -1
    /\ improvements = 0 /\ regressions = 0 /\ similar = 0
    /\ time_str = <<>> /\ time_out = [state |-> "idle"]
    /\ speedup_in = <<>> /\ speedup_out = [state |-> "idle"]

callVars == <<time_str, time_out, speedup_in, speedup_out>>

\* Lines 79-85: the argument count; the usage line and sys.exit(1).
CheckArgs ==
    /\ pc = "start"
    /\ IF argc # 2
       THEN /\ stderr' = Append(stderr, [kind |-> "usage"])
            /\ status' = 1
            /\ pc' = "exited"
       ELSE /\ pc' = "parse_main"
            /\ UNCHANGED <<stderr, status>>
    /\ UNCHANGED <<argc, main_file, current_file, opened, main_results,
                   current_results, all_benchmarks, categories, cat_idx,
                   row_idx, stdout, improvements, regressions, similar,
                   callVars>>

\* Line 88: the main file is opened, read and parsed.
ParseMain ==
    /\ pc = "parse_main"
    /\ \E f \in Files :
          /\ main_file' = f
          /\ main_results' = parse_criterion_output(FileText(f))
    /\ opened' = opened + 1
    /\ pc' = "parse_current"
    /\ UNCHANGED <<argc, current_file, current_results, all_benchmarks,
                   categories, cat_idx, row_idx, stdout, stderr, status,
                   improvements, regressions, similar, callVars>>

\* Line 89: the current file is opened, read and parsed.
ParseCurrent ==
    /\ pc = "parse_current"
    /\ \E f \in Files :
          /\ current_file' = f
          /\ current_results' = parse_criterion_output(FileText(f))
    /\ opened' = opened + 1
    /\ pc' = "header"
    /\ UNCHANGED <<argc, main_file, main_results, all_benchmarks,
                   categories, cat_idx, row_idx, stdout, stderr, status,
                   improvements, regressions, similar, callVars>>

\* Lines 92-120: the header is printed, the names sorted and categorized.
PrintHeader ==
    /\ pc = "header"
    /\ stdout' = stdout \o <<[kind |-> "title"], [kind |-> "main_path"],
                             [kind |-> "current_path"]>>
    /\ all_benchmarks' = Sorted((DOMAIN main_results) \cup (DOMAIN current_results))
    /\ categories' = Categorize(all_benchmarks')
    /\ cat_idx' = 1
    /\ pc' = "category"
    /\ UNCHANGED <<argc, main_file, current_file, opened, main_results,
                   current_results, row_idx, stderr, status, improvements,
                   regressions, similar, callVars>>

\* Lines 123-129: the empty categories are passed over; the next one that
\* is not gets its heading and the head of its table.  Without one the
\* loop ends.
PrintCategory ==
    /\ pc = "category"
    /\ IF Pending(categories, cat_idx) = {}
       THEN /\ pc' = "summary"
            /\ UNCHANGED <<cat_idx, row_idx, stdout>>
       ELSE LET c == CHOOSE j \in Pending(categories, cat_idx) :
                         \A k \in Pending(categories, cat_idx) : j <= k
            IN  /\ cat_idx' = c
                /\ row_idx' = 1
                /\ stdout' = stdout \o
                      <<[kind |-> "heading", text |-> Heading(CategoryTags[c])],
                        [kind |-> "table_head"], [kind |-> "table_rule"]>>
                /\ pc' = "rows"
    /\ UNCHANGED <<argc, main_file, current_file, opened, main_results,
                   current_results, all_benchmarks, categories, stderr,
                   status, improvements, regressions, similar, callVars>>

\* Lines 131-153: one row of the table; after the last one the blank line.
\* An exception of parse_time_to_ns or calculate_speedup is not caught: the
\* traceback goes to the error stream and the process ends with status 1.
PrintRow ==
    /\ pc = "rows"
    /\ \E r \in {RowOf(categories[cat_idx][row_idx], main_results,
                       current_results)} :
          IF r.raised
          THEN /\ stderr' = Append(stderr, [kind |-> "traceback", error |-> r.error])
               /\ status' = 1
               /\ pc' = "exited"
               /\ UNCHANGED <<stdout, cat_idx, row_idx>>
          ELSE IF row_idx < Len(categories[cat_idx])
          THEN /\ stdout' = Append(stdout, r.row)
               /\ row_idx' = row_idx + 1
               /\ UNCHANGED <<pc, cat_idx, stderr, status>>
          ELSE /\ stdout' = stdout \o <<r.row, [kind |-> "blank"]>>
               /\ cat_idx' = cat_idx + 1
               /\ row_idx' = 0
               /\ pc' = "category"
               /\ UNCHANGED <<stderr, status>>
    /\ UNCHANGED <<argc, main_file, current_file, opened, main_results,
                   current_results, all_benchmarks, categories,
                   improvements, regressions, similar, callVars>>

\* Lines 156-176: the summary heading and the loop that counts.
Summarize ==
    /\ pc = "summary"
    /\ stdout' = Append(stdout, [kind |-> "summary_heading"])
    /\ \E counted \in {Counted(all_benchmarks, main_results, current_results)} :
          IF Raising(counted) # {}
          THEN /\ stderr' = Append(stderr,
                     [kind |-> "traceback",
                      error |-> counted[CHOOSE i \in Raising(counted) :
                                           \A j \in Raising(counted) : i <= j]])
               /\ status' = 1
               /\ pc' = "exited"
               /\ UNCHANGED <<improvements, regressions, similar>>
          ELSE /\ improvements' = Tally(counted, "improvements")
               /\ regressions' = Tally(counted, "regressions")
               /\ similar' = Tally(counted, "similar")
               /\ pc' = "totals"
               /\ UNCHANGED <<stderr, status>>
    /\ UNCHANGED <<argc, main_file, current_file, opened, main_results,
                   current_results, all_benchmarks, categories, cat_idx,
                   row_idx, callVars>>

\* The trailing message with the improvements tested first.
TrailerImprovementsFirst(imp, reg) ==
    IF imp > 0 THEN <<[kind |-> "success"]>>
    ELSE IF reg > 0 THEN <<[kind |-> "warning"]>>
    ELSE <<>>

\* The line printed after the counts (lines 184-187), if any.
Trailer(imp, reg) ==
    IF reg > 0 THEN <<[kind |-> "warning"]>>
    ELSE IF imp > 0 THEN <<[kind |-> "success"]>>
    ELSE <<>>

\* Lines 178-187: the counts and the trailing message; the script ends.
PrintSummary ==
    /\ pc = "totals"
    /\ stdout' = stdout \o
          <<[kind |-> "total", n |-> improvements + regressions + similar],
            [kind |-> "improvements", n |-> improvements],
            [kind |-> "regressions", n |-> regressions],
            [kind |-> "similar", n |-> similar]>>
          \o Trailer(improvements, regressions)
    /\ status' = 0
    /\ pc' = "exited"
    /\ UNCHANGED <<argc, main_file, current_file, opened, main_results,
                   current_results, all_benchmarks, categories, cat_idx,
                   row_idx, stderr, improvements, regressions, similar,
                   callVars>>

Next ==
    \/ CheckArgs
    \/ ParseMain
    \/ ParseCurrent
    \/ PrintHeader
    \/ PrintCategory
    \/ PrintRow
    \/ Summarize
    \/ PrintSummary

Spec == Init /\ [][Next]_vars

(***************************************************************************)
(* The claims.                                                             *)
(***************************************************************************)
\* The report ran to its end.
Completed == pc = "exited" /\ status = 0
\* The names present in both files.
InBoth == (DOMAIN main_results) \cap (DOMAIN current_results)
AllNames == (DOMAIN main_results) \cup (DOMAIN current_results)
\* The positions of the rows printed, and of those of one benchmark.
RowsAt == {i \in 1..Len(stdout) : stdout[i].kind = "row"}
RowsFor(bench) == {i \in RowsAt : stdout[i].bench = bench}
RowsMarked(marker) == {i \in RowsAt : stdout[i].marker = marker}
Printed(kind) == \E i \in 1..Len(stdout) : stdout[i].kind = kind

\* The unit spellings the specification names.
UnitNs == <<"n", "s">>
UnitUs == <<"u", "s">>
UnitMicro == <<"U+00B5", "s">>
UnitMs == <<"m", "s">>
UnitS == <<"s">>
KnownUnits == {UnitNs, UnitUs, UnitMicro, UnitMs, UnitS}

IsNumberText(n) == n # <<>> /\ (\A i \in 1..Len(n) : n[i] \in NumChar) /\ FloatOk(n)

\* v is a number followed by its unit, with or without a blank between them.
IsTimeValue(v) ==
    \E k \in 1..Len(v) :
        /\ IsNumberText(SubSeq(v, 1, k))
        /\ \/ SubSeq(v, k + 1, Len(v)) \in KnownUnits
           \/ /\ k < Len(v) /\ v[k + 1] = " "
              /\ SubSeq(v, k + 2, Len(v)) \in KnownUnits

\* A line "<name> time: [<a> <b> <c>]" with three time values.
WellFormed(line) ==
    /\ Len(line.vals) = 3
    /\ \A k \in 1..3 : IsTimeValue(line.vals[k])
    /\ \/ NameIsPath(line.name, 1, Len(line.name) + 1)
       \/ NameIsWord(line.name, 1, Len(line.name) + 1)

\* No later line of the file carries the name of line i.
LastOfName(file, i) == \A j \in (i + 1)..Len(file) : file[j].name # file[i].name

\* The record the parser is claimed to hold for every well-formed line.
ParsedAsClaimed(file, results) ==
    \A i \in 1..Len(file) :
        (WellFormed(file[i]) /\ LastOfName(file, i)) =>
            /\ file[i].name \in DOMAIN results
            /\ results[file[i].name].time = file[i].vals[2]
            /\ results[file[i].name].full_time = Join(file[i].vals, <<" ">>)

\* C1: for every well-formed line "<name> time: [<a> <b> <c>]" of a parsed
\* file, the mapping has an entry for <name> whose time is <b>, the median,
\* verbatim and whose full_time is "<a> <b> <c>".
C1_MedianStoredVerbatim ==
    /\ opened >= 1 => ParsedAsClaimed(main_file, main_results)
    /\ opened >= 2 => ParsedAsClaimed(current_file, current_results)

\* The well-formed line of a file that is the last to carry a name.
LinesOf(file, name) ==
    {i \in 1..Len(file) :
        file[i].name = name /\ WellFormed(file[i]) /\ LastOfName(file, i)}

Example1 == <<[name |-> NameFooBar,
               vals |-> <<<<"1", "0", " ", "n", "s">>, <<"1", "2", " ", "n", "s">>,
                          <<"1", "4", " ", "n", "s">>>>]>>
Example2 == <<[name |-> NameFooBar,
               vals |-> <<<<"5", " ", "n", "s">>, <<"6", " ", "n", "s">>,
                          <<"7", " ", "n", "s">>>>]>>

\* C2: in a completed report, a benchmark with a well-formed line in both
\* files has a row showing the two medians, and when main median / current
\* median > 1.1 the row carries the improvement marker and a "faster"
\* label and the summary counts an improvement; for the example of the
\* specification the row shows 12 ns and 6 ns, the summary counts 1
\* improvement, 0 regressions, 0 similar, and the success line is printed.
C2_EndToEnd ==
    Completed =>
        /\ \A name \in AllNames :
             \A i \in LinesOf(main_file, name) : \A j \in LinesOf(current_file, name) :
                LET mmed == main_file[i].vals[2]
                    cmed == current_file[j].vals[2]
                    mns  == parse_time_to_ns(mmed).value
                    cns  == parse_time_to_ns(cmed).value
                IN  /\ \E r \in RowsFor(name) :
                          stdout[r].main = mmed /\ stdout[r].current = cmed
                    /\ (cns # FloatZero /\ FloatLess[ImprovedAbove, FloatDiv[mns, cns]]) =>
                          /\ \E r \in RowsFor(name) :
                                /\ stdout[r].marker = "improvement"
                                /\ stdout[r].label.text = "faster"
                          /\ improvements >= 1
        /\ (main_file = Example1 /\ current_file = Example2) =>
              /\ improvements = 1 /\ regressions = 0 /\ similar = 0
              /\ Printed("success")

\* parse_time_to_ns returns 0.0 for the stored time t.
ZeroTime(t) ==
    LET r == parse_time_to_ns(t) IN ~r.raised /\ r.value = FloatZero

\* C3: in a completed report, a benchmark present in both files whose
\* stored time normalizes to 0.0 on either side has the bare "N/A" in its
\* speedup cell, with no marker, and is counted by none of the counters.
C3_ZeroTimeIsMissing ==
    Completed =>
        LET zero == {b \in InBoth : \/ ZeroTime(main_results[b].time)
                                    \/ ZeroTime(current_results[b].time)}
        IN  /\ \A b \in zero : \A r \in RowsFor(b) :
                  stdout[r].marker = "none" /\ stdout[r].label = [text |-> "N/A"]
            /\ improvements + regressions + similar <= Cardinality(InBoth \ zero)

\* The multiplier the specification gives a unit.
ClaimedMultiplier(unit) ==
    IF unit = UnitNs THEN FloatOfInt[1]
    ELSE IF unit \in {UnitUs, UnitMicro} THEN FloatOfInt[1000]
    ELSE IF unit = UnitMs THEN FloatOfInt[1000000]
    ELSE IF unit = UnitS THEN FloatOfInt[1000000000]
    ELSE FloatOfInt[1]

\* C4: for every string "<number> <unit>" the result is the number times
\* the multiplier of the unit: 1 for ns, 1000 for us and for the micro sign
\* followed by s, 1,000,000 for ms, 1,000,000,000 for s, 1 for any other.
C4_NumberTimesMultiplier ==
    time_out.state # "pending" =>
        LET p == IndexFrom(time_str, 1, " ")
            number == SubSeq(time_str, 1, p - 1)
            unit == SubSeq(time_str, p + 1, Len(time_str))
        IN  (p > 1 /\ IsNumberText(number) /\ unit # <<>>) =>
                /\ time_out.state = "returned"
                /\ time_out.value = FloatMul[FloatOf[number], ClaimedMultiplier(unit)]

\* s starts with a number.
StartsWithNumber(s) == \E k \in 1..Len(s) : IsNumberText(SubSeq(s, 1, k))

\* C5: parse_time_to_ns never raises: for every string it returns a number,
\* and 0.0 when the string does not start with a number.
C5_NeverRaises ==
    time_out.state # "pending" =>
        /\ time_out.state = "returned"
        /\ ~StartsWithNumber(time_str) => time_out.value = FloatZero

\* x is a whole number, and the integer it is (below 2^15).
IsWhole(x) == x.cls = "finite" /\ x.e >= 0
IntOf(x) == IF x.m = <<>> THEN 0 ELSE x.m[1] * Pow2[x.e]
Abs(k) == IF k < 0 THEN 0 - k ELSE k
BigAbsDiff(x, y) == IF BigCmp[x, y] >= 0 THEN BigSub[x, y] ELSE BigSub[y, x]

\* r is a / b but for the rounding of binary64: it differs from the exact
\* quotient of the integers a and b by at most a / 2^53.
IsQuotient(r, a, b) ==
    LET up   == IF r.e > 0 THEN r.e ELSE 0
        down == IF r.e < 0 THEN 0 - r.e ELSE 0
        lhs  == BigAbsDiff(BigShl[BigMul[r.m, BigOfInt[b]], up],
                           BigShl[BigOfInt[a], down])
    IN  /\ r.cls = "finite"
        /\ BigCmp[BigShl[lhs, MantissaBits], BigShl[BigOfInt[a], down]] <= 0

\* The hundredths a printed factor spells: its digits without the point.
FactorOf(text) ==
    LET n == DigitsValue[text] IN IF n = <<>> THEN 0 ELSE n[1]

\* What the claim says of two whole numbers a and b above 0: the ratio r is
\* the exact quotient but for the rounding of binary64, and the factor of
\* the label l is within half a hundredth of the exact one.
WholeQuotient(a, b, r, l) ==
    /\ IsQuotient(r, a, b)
    /\ a > b => 2 * Abs(100 * a - FactorOf(l.factor) * b) <= b
    /\ a < b => 2 * Abs(100 * b - FactorOf(l.factor) * a) <= a

\* C6: calculate_speedup returns (0.0, "N/A") if and only if either
\* argument is 0; otherwise it returns the ratio main_ns / current_ns and
\* the label "<ratio> faster" when the ratio is above 1,
\* "<1/ratio> slower (regression)" when it is below 1, and "Same" with
\* ratio 1.0 when the two arguments are equal.
C6_SpeedupContract ==
    speedup_out.state # "pending" =>
        /\ speedup_out.state = "returned"
        /\ LET main_ns    == speedup_in.main_ns
               current_ns == speedup_in.current_ns
               r == speedup_out.ratio
               l == speedup_out.label
           IN  /\ (r = FloatZero /\ l = [text |-> "N/A"])
                      <=> (main_ns = FloatZero \/ current_ns = FloatZero)
               /\ (main_ns # FloatZero /\ current_ns # FloatZero) =>
                     /\ r = FloatDiv[main_ns, current_ns]
                     /\ FloatLess[FloatOne, r] =>
                           l = [text |-> "faster", factor |-> Fmt2[r]]
                     /\ FloatLess[r, FloatOne] =>
                           l = [text |-> "slower (regression)",
                                factor |-> Fmt2[FloatDiv[FloatOne, r]]]
                     /\ main_ns = current_ns =>
                           l = [text |-> "Same"] /\ r = FloatOne
                     /\ (IsWhole(main_ns) /\ IsWhole(current_ns)) =>
                           WholeQuotient(IntOf(main_ns), IntOf(current_ns), r, l)

\* main has categorized the names.
Categorized == Len(categories) = NumCategories

\* C7: after categorization the buckets are pairwise disjoint, their union
\* is the union of the names of the two mappings, no name is twice in a
\* bucket, and each name is in the bucket of the first category, in
\* declaration order, whose tag is a substring of it, in other when none is.
C7_CategoryPartition ==
    Categorized =>
        /\ \A i, j \in 1..NumCategories :
              i # j => Range(categories[i]) \cap Range(categories[j]) = {}
        /\ \A i \in 1..NumCategories :
              Cardinality(Range(categories[i])) = Len(categories[i])
        /\ UNION {Range(categories[i]) : i \in 1..NumCategories} = AllNames
        /\ \A i \in 1..NumCategories : \A name \in Range(categories[i]) :
              IF \E j \in 1..NumCategories : IsSubstring(CategoryTags[j], name)
              THEN /\ IsSubstring(CategoryTags[i], name)
                   /\ \A j \in 1..(i - 1) : ~IsSubstring(CategoryTags[j], name)
              ELSE CategoryTags[i] = <<"o", "t", "h", "e", "r">>

\* A name with the tags evaluation and scalability is in evaluation, one
\* with cow_clone in cow_clone, one with no tag in other.
C7_Witness ==
    /\ Categorized
    /\ categories[7] = <<NameEvalScal>>
    /\ categories[8] = <<>>
    /\ categories[3] = <<NameCowClone>>
    /\ categories[9] = <<NameFooBar>>

\* C8: the warning line is printed if and only if the report completes
\* with regressions > 0, the success line if and only if it completes with
\* regressions = 0 and improvements > 0; never both.
C8_TrailingMessage ==
    /\ Printed("warning") <=> (Completed /\ regressions > 0)
    /\ Printed("success") <=> (Completed /\ regressions = 0 /\ improvements > 0)
    /\ ~(Printed("warning") /\ Printed("success"))

\* A completed report with regressions and improvements: the warning only.
C8_Witness ==
    /\ Completed /\ regressions > 0 /\ improvements > 0
    /\ Printed("warning") /\ ~Printed("success")

\* C9: with an argument count other than two, main prints the usage line
\* to the error stream and exits with status 1 before opening a file or
\* writing to standard output; with two readable files the report is
\* written and the process ends with status 0.
C9_ExitStatus ==
    /\ (argc # 2 /\ pc # "start") =>
          /\ pc = "exited" /\ status = 1
          /\ stderr = <<[kind |-> "usage"]>>
          /\ stdout = <<>> /\ opened = 0
    /\ (argc = 2 /\ pc = "exited") => (status = 0 /\ Printed("total"))

\* The total the summary prints.
PrintedTotal == stdout[CHOOSE i \in 1..Len(stdout) : stdout[i].kind = "total"].n

\* What C10 says of the table and the counters, apart from the total.
TableMatchesCounters ==
    /\ \A name \in AllNames : Cardinality(RowsFor(name)) = 1
    /\ Cardinality(RowsAt) = Cardinality(AllNames)
    /\ improvements = Cardinality(RowsMarked("improvement"))
    /\ regressions = Cardinality(RowsMarked("regression"))
    /\ similar = Cardinality(RowsMarked("neutral"))
    /\ \A i \in RowsMarked("none") : stdout[i].label = [text |-> "N/A"]
    /\ PrintedTotal = improvements + regressions + similar

\* C10 as stated: in a completed report every name of either file has
\* exactly one row; the counters equal the numbers of rows with the
\* improvement, regression and neutral marker; the rows with the bare
\* "N/A" are those of the names missing from one file; and the total
\* printed is the sum of the counters and the number of names present in
\* both files.
C10_TableAndSummaryAgree ==
    Completed =>
        /\ TableMatchesCounters
        /\ \A i \in RowsAt : stdout[i].marker = "none" <=> stdout[i].bench \notin InBoth
        /\ PrintedTotal = Cardinality(InBoth)

\* The names of both files whose stored time is not the text N/A in either.
Compared ==
    {b \in InBoth : main_results[b].time # NA /\ current_results[b].time # NA}

\* C10 as amended: the rows with the bare "N/A" are those of the names
\* missing from one file or whose stored time is the text N/A in one, and
\* the total is the number of the other names.
C10_TableAndSummaryAgreeAmended ==
    Completed =>
        /\ TableMatchesCounters
        /\ \A i \in RowsAt : stdout[i].marker = "none" <=> stdout[i].bench \notin Compared
        /\ PrintedTotal = Cardinality(Compared)

\* A completed report with a name of both files whose stored time is the
\* text N/A, next to a name that is compared.
C10_Witness ==
    /\ Completed
    /\ Compared # {} /\ InBoth \ Compared # {}
    /\ RowsMarked("none") # {} /\ RowsMarked("improvement") # {}

====
